---- MODULE Spec2Model ----
(***************************************************************************)
(* Model of nova_dual_chatbot.py: the session driver main(), the          *)
(* orchestrator NovaDualChatbot.chat, the fast call invoke_nova_micro     *)
(* run by a pool worker, and the generator stream_nova_pro, whose body    *)
(* runs on the thread that iterates it.                                   *)
(*                                                                         *)
(* Text is a sequence of characters.  A blocking transport call is two    *)
(* steps: the caller issues the request (appended to requests) and the    *)
(* transport answers in a later step of its own.                          *)
(***************************************************************************)
EXTENDS Integers, Sequences, FiniteSets, TLC

VARIABLES
    bedrock_runtime,        \* chatbot.bedrock_runtime, the transport client
    mainPc,                 \* position of main()
    mode,                   \* main: the mode typed by the user
    testIndex,              \* main: i of the test-mode loop
    user_input,             \* main: the interactive line, stripped
    inputsRead,             \* number of interactive lines read so far
    turn,                   \* number of chat() invocations so far
    user_query,             \* chat: its argument
    chatPc,                 \* position of chat()
    microState,             \* future_micro / worker of invoke_nova_micro
    microReply,             \* what the transport answered to invoke_model
    microResult,            \* value invoke_nova_micro returned
    proState,               \* future_pro_stream / worker of stream_nova_pro
    genPc,                  \* position of the generator stream_nova_pro
    chunk,                  \* value the generator is suspended on
    opened,                 \* what invoke_model_with_response_stream answered
    events,                 \* events the transport delivered on the stream
    requests,               \* requests issued to the transport in this turn
    micro_response,         \* chat: local micro_response
    full_pro_response,      \* chat: local full_pro_response
    sink                    \* what chat wrote to stdout in this turn

mainVars == <<bedrock_runtime, mainPc, mode, testIndex, user_input, inputsRead, turn>>
microVars == <<microState, microReply, microResult>>
genVars == <<genPc, chunk, opened, events>>
chatVars == <<user_query, chatPc, proState, micro_response, full_pro_response, sink>>
vars == <<mainVars, microVars, genVars, chatVars, requests>>

---------------------------------------------------------------------------
(* Bounds *)
MaxEvents == 2          \* stream events delivered per turn
MaxInputs == 2          \* interactive lines read per session

---------------------------------------------------------------------------
(* Text *)
\* answer texts of the fast tier: empty, blank, plain, padded, inner space
MicroTexts ==
    {<<>>, <<" ">>, <<"a">>, <<" ", "a", " ">>, <<"a", " ", "b">>}
\* text payloads of delta events
StreamTexts == {<<>>, <<"x">>, <<"y">>}

RECURSIVE LStrip(_)
LStrip(s) == IF s # <<>> /\ Head(s) = " " THEN LStrip(Tail(s)) ELSE s

RECURSIVE RStrip(_)
RStrip(s) ==
    IF s # <<>> /\ s[Len(s)] = " " THEN RStrip(SubSeq(s, 1, Len(s) - 1)) ELSE s

\* str.strip()
Strip(s) == RStrip(LStrip(s))

\* the message invoke_nova_micro returns from its except clause
MicroErrorMessage == <<"MICRO_ERROR_MESSAGE">>
\* the message stream_nova_pro yields from its except clause
ProErrorMessage == <<"\n", "PRO_ERROR_MESSAGE">>

NoValue == <<"<none>">>

---------------------------------------------------------------------------
(* Prompts and requests *)
test_queries == << <<"t1">>, <<"t2">>, <<"t3">>, <<"t4">> >>

create_prompts(q) == [micro |-> <<"micro_prompt", q>>, pro |-> <<"pro_prompt", q>>]

MicroRequest(prompt) ==
    [op |-> "invoke_model", modelId |-> "amazon.nova-micro-v1:0", prompt |-> prompt]
ProRequest(prompt) ==
    [op |-> "invoke_model_with_response_stream", modelId |-> "amazon.nova-pro-v1:0",
     prompt |-> prompt]

IsProRequest(r) == r.op = "invoke_model_with_response_stream"
IsMicroRequest(r) == r.op = "invoke_model"
ProIssued == \E i \in 1..Len(requests) : IsProRequest(requests[i])
MicroIssued == \E i \in 1..Len(requests) : IsMicroRequest(requests[i])

---------------------------------------------------------------------------
(* invoke_nova_micro: what the transport can answer, and what is returned *)
MicroReplyKinds == {"raise", "no_body", "bad_json", "missing_field", "ok"}
MicroFailureKinds == MicroReplyKinds \ {"ok"}

MicroReplies ==
    {[kind |-> k, text |-> <<>>] : k \in MicroFailureKinds}
        \cup {[kind |-> "ok", text |-> t] : t \in MicroTexts}

NoReply == [kind |-> "none", text |-> <<>>]

\* the marker of a future that holds an exception instead of a value
Raised == <<"<raised>">>

\* invoke_nova_micro with an except clause that catches only the failures
\* of the transport call: a missing field leaves the function as an exception
invoke_nova_micro_Uncaught(reply) ==
    IF reply.kind = "raise" THEN MicroErrorMessage
    ELSE IF reply.kind = "no_body" THEN MicroErrorMessage
    ELSE IF reply.kind = "bad_json" THEN MicroErrorMessage
    ELSE IF reply.kind = "missing_field" THEN Raised
    ELSE Strip(reply.text)

\* invoke_nova_micro with an except clause that returns the empty string
invoke_nova_micro_EmptyOnError(reply) ==
    IF reply.kind \in MicroFailureKinds THEN <<>> ELSE Strip(reply.text)

\* invoke_nova_micro treating an empty answer as a failure
invoke_nova_micro_EmptyIsError(reply) ==
    IF reply.kind \in MicroFailureKinds THEN MicroErrorMessage
    ELSE IF Strip(reply.text) = <<>> THEN MicroErrorMessage
    ELSE Strip(reply.text)

\* try: invoke_model; json.loads(body.read()); [...]['text']; strip
\* except Exception: return the fixed message
invoke_nova_micro(reply) ==
    IF reply.kind = "raise" THEN MicroErrorMessage
    ELSE IF reply.kind = "no_body" THEN MicroErrorMessage
    ELSE IF reply.kind = "bad_json" THEN MicroErrorMessage
    ELSE IF reply.kind = "missing_field" THEN MicroErrorMessage
    ELSE Strip(reply.text)

---------------------------------------------------------------------------
(* stream_nova_pro: the events of the stream and what the loop body does *)
SkippedKinds == {"no_chunk", "control", "delta_no_delta", "delta_no_text"}
RaisingKinds == {"no_bytes", "undecodable", "delta_not_dict"}

\* a text value that is not a str (a number, a list)
NonStr == <<"<non-str>">>

StreamEvents ==
    {[kind |-> k, text |-> <<>>] : k \in SkippedKinds \cup RaisingKinds}
        \cup {[kind |-> "delta_text", text |-> t] : t \in StreamTexts \cup {NonStr}}

\* the two ways the iteration over the stream stops
EndOfStream == [kind |-> "end_of_stream", text |-> <<>>]
TransportError == [kind |-> "transport_error", text |-> <<>>]

OpenOutcomes == {"stream", "no_body", "raise"}

\* the loop body without `if text_content:`: an empty text is yielded too
EventOutcome_NoEmptyCheck(event) ==
    IF event.kind = "no_chunk" THEN [act |-> "skip", value |-> <<>>]
    ELSE IF event.kind = "no_bytes" THEN [act |-> "raise", value |-> <<>>]
    ELSE IF event.kind = "undecodable" THEN [act |-> "raise", value |-> <<>>]
    ELSE IF event.kind = "control" THEN [act |-> "skip", value |-> <<>>]
    ELSE IF event.kind = "delta_not_dict" THEN [act |-> "raise", value |-> <<>>]
    ELSE [act |-> "yield", value |-> event.text]

\* one pass of the body of `for event in stream`
EventOutcome(event) ==
    IF event.kind = "no_chunk" THEN [act |-> "skip", value |-> <<>>]
    ELSE IF event.kind = "no_bytes" THEN [act |-> "raise", value |-> <<>>]
    ELSE IF event.kind = "undecodable" THEN [act |-> "raise", value |-> <<>>]
    ELSE IF event.kind = "control" THEN [act |-> "skip", value |-> <<>>]
    ELSE IF event.kind = "delta_not_dict" THEN [act |-> "raise", value |-> <<>>]
    ELSE IF event.kind \in {"delta_no_delta", "delta_no_text"}
         THEN [act |-> "skip", value |-> <<>>]
    ELSE IF event.text = <<>> THEN [act |-> "skip", value |-> <<>>]
    ELSE [act |-> "yield", value |-> event.text]

\* an except clause that only logs: the generator ends without a notice
OnStreamException_Silent == [genPc |-> "exhausted", chunk |-> NoValue]

\* the except clause of stream_nova_pro: where the generator goes when
\* anything inside the try raises
OnStreamException == [genPc |-> "yield_error", chunk |-> ProErrorMessage]

\* a try/except placed inside the loop: after the notice the loop goes on
Resume_Continue(pc) == "reading"

\* where the generator goes when chat asks for the next value after a yield
Resume(pc) == IF pc = "yield_text" THEN "reading" ELSE "exhausted"

---------------------------------------------------------------------------
(* Initial state: main() has printed its banner *)
Init ==
    /\ bedrock_runtime = "none"
    /\ mainPc = "construct"
    /\ mode = "none"
    /\ testIndex = 0
    /\ user_input = NoValue
    /\ inputsRead = 0
    /\ turn = 0
    /\ user_query = NoValue
    /\ chatPc = "idle"
    /\ microState = "none"
    /\ microReply = NoReply
    /\ microResult = NoValue
    /\ proState = "none"
    /\ genPc = "none"
    /\ chunk = NoValue
    /\ opened = "none"
    /\ events = <<>>
    /\ requests = <<>>
    /\ micro_response = NoValue
    /\ full_pro_response = <<>>
    /\ sink = <<>>

---------------------------------------------------------------------------
(* main() *)
Modes == {"1", "2", "other"}
\* ['quit', 'exit', '종료']
QuitWords == {<<"q", "u", "i", "t">>, <<"e", "x", "i", "t">>, <<"jong", "ryo">>}

\* the lines typed in the interactive mode, as input() returns them
InputLines ==
    {<<"q", "u", "i", "t">>, <<" ", "E", "x", "i", "T", " ">>, <<"jong", "ryo">>,
     <<>>, <<" ">>, <<"Q", "1">>, <<" ", "q", "2", " ">>}

\* str.lower(), character by character
LowerChar(c) ==
    IF c = "E" THEN "e" ELSE IF c = "T" THEN "t" ELSE IF c = "Q" THEN "q" ELSE c
\* the comparison made on user_input itself, without .lower()
Lower_Identity(line) == line

Lower(line) == [i \in 1..Len(line) |-> LowerChar(line[i])]

\* an __init__ that prints the failure and returns: main goes on without a
\* client
MainConstruct_Continue ==
    /\ mainPc = "construct"
    /\ \E ok \in BOOLEAN :
        /\ mainPc' = "select_mode"
        /\ bedrock_runtime' = IF ok THEN "client" ELSE "none"
    /\ UNCHANGED <<mode, testIndex, user_input, inputsRead, turn>>
    /\ UNCHANGED <<microVars, genVars, chatVars, requests>>

\* chatbot = NovaDualChatbot(): boto3.client succeeds, or __init__ prints
\* the failure and calls sys.exit(1), which `except Exception` lets through
MainConstruct ==
    /\ mainPc = "construct"
    /\ \E ok \in BOOLEAN :
        /\ mainPc' = IF ok THEN "select_mode" ELSE "exited"
        /\ bedrock_runtime' = IF ok THEN "client" ELSE "none"
    /\ UNCHANGED <<mode, testIndex, user_input, inputsRead, turn>>
    /\ UNCHANGED <<microVars, genVars, chatVars, requests>>

\* mode = input(...).strip()
MainSelectMode ==
    /\ mainPc = "select_mode"
    /\ \E m \in Modes :
        /\ mode' = m
        /\ mainPc' = IF m = "1" THEN "input" ELSE IF m = "2" THEN "test" ELSE "done"
        /\ testIndex' = IF m = "2" THEN 1 ELSE testIndex
    /\ UNCHANGED <<bedrock_runtime, user_input, inputsRead, turn>>
    /\ UNCHANGED <<microVars, genVars, chatVars, requests>>

\* chat accumulating the deep answer in an attribute of the chatbot that is
\* never cleared, instead of the local full_pro_response
ChatEnter_Leaky(q) ==
    /\ mainPc' = "chat"
    /\ turn' = turn + 1
    /\ user_query' = q
    /\ chatPc' = "submit_micro"
    /\ microState' = "none"
    /\ microReply' = NoReply
    /\ microResult' = NoValue
    /\ proState' = "none"
    /\ genPc' = "none"
    /\ chunk' = NoValue
    /\ opened' = "none"
    /\ events' = <<>>
    /\ requests' = <<>>
    /\ micro_response' = NoValue
    /\ UNCHANGED full_pro_response
    /\ sink' = <<>>

\* entry of chat(q): the locals of the new call
ChatEnter(q) ==
    /\ mainPc' = "chat"
    /\ turn' = turn + 1
    /\ user_query' = q
    /\ chatPc' = "submit_micro"
    /\ microState' = "none"
    /\ microReply' = NoReply
    /\ microResult' = NoValue
    /\ proState' = "none"
    /\ genPc' = "none"
    /\ chunk' = NoValue
    /\ opened' = "none"
    /\ events' = <<>>
    /\ requests' = <<>>
    /\ micro_response' = NoValue
    /\ full_pro_response' = <<>>
    /\ sink' = <<>>

\* one pass of `while True` in the interactive mode
MainInput ==
    /\ mainPc = "input"
    /\ inputsRead < MaxInputs
    /\ inputsRead' = inputsRead + 1
    /\ \E line \in InputLines : user_input' = Strip(line)
    /\ IF Lower(user_input') \in QuitWords
       THEN /\ mainPc' = "done"
            /\ UNCHANGED <<turn, microVars, genVars, chatVars, requests>>
       ELSE IF user_input' = <<>>
       THEN /\ UNCHANGED <<mainPc, turn, microVars, genVars, chatVars, requests>>
       ELSE ChatEnter(user_input')
    /\ UNCHANGED <<bedrock_runtime, mode, testIndex>>

\* chatbot.chat(query) in the test mode
MainTest ==
    /\ mainPc = "test"
    /\ ChatEnter(test_queries[testIndex])
    /\ UNCHANGED <<bedrock_runtime, mode, testIndex, user_input, inputsRead>>

\* chat has returned: back in the loop of main
MainAfterChat ==
    /\ mainPc = "chat"
    /\ chatPc = "returned"
    /\ chatPc' = "idle"
    /\ mainPc' = IF mode = "1" THEN "input"
                 ELSE IF testIndex < Len(test_queries) THEN "pause" ELSE "done"
    /\ UNCHANGED <<bedrock_runtime, mode, testIndex, user_input, inputsRead, turn>>
    /\ UNCHANGED <<user_query, proState, micro_response, full_pro_response, sink>>
    /\ UNCHANGED <<microVars, genVars, requests>>

\* input("... Enter ...") between two test queries
MainPause ==
    /\ mainPc = "pause"
    /\ testIndex' = testIndex + 1
    /\ mainPc' = "test"
    /\ UNCHANGED <<bedrock_runtime, mode, user_input, inputsRead, turn>>
    /\ UNCHANGED <<microVars, genVars, chatVars, requests>>

\* an exception leaves chat: main does not catch it
MainCrash ==
    /\ mainPc = "chat"
    /\ chatPc = "raised"
    /\ mainPc' = "crashed"
    /\ UNCHANGED <<bedrock_runtime, mode, testIndex, user_input, inputsRead, turn>>
    /\ UNCHANGED <<microVars, genVars, chatVars, requests>>

---------------------------------------------------------------------------
(* chat(): the two submits *)

\* future_micro = executor.submit(self.invoke_nova_micro, micro_prompt)
SubmitMicro ==
    /\ chatPc = "submit_micro"
    /\ microState' = "pending"
    /\ chatPc' = "submit_pro"
    /\ UNCHANGED <<microReply, microResult>>
    /\ UNCHANGED <<user_query, proState, micro_response, full_pro_response, sink>>
    /\ UNCHANGED <<mainVars, genVars, requests>>

\* future_pro_stream = executor.submit(self.stream_nova_pro, pro_prompt)
SubmitPro ==
    /\ chatPc = "submit_pro"
    /\ proState' = "pending"
    /\ chatPc' = "await_micro"
    /\ UNCHANGED <<user_query, micro_response, full_pro_response, sink>>
    /\ UNCHANGED <<mainVars, microVars, genVars, requests>>

---------------------------------------------------------------------------
(* The pool workers *)

\* a worker runs invoke_nova_micro up to the blocking invoke_model call
WorkerMicroCall ==
    /\ microState = "pending"
    /\ requests' = Append(requests, MicroRequest(create_prompts(user_query).micro))
    /\ microState' = "calling"
    /\ UNCHANGED <<microReply, microResult>>
    /\ UNCHANGED <<mainVars, genVars, chatVars>>

\* a failed invoke_model call that is submitted again
TransportMicroReply_Retry ==
    /\ microState = "calling"
    /\ \E reply \in MicroReplies :
        /\ microReply' = reply
        /\ microResult' = invoke_nova_micro(reply)
        /\ microState' = IF reply.kind = "raise" THEN "pending" ELSE "done"
    /\ UNCHANGED <<mainVars, genVars, chatVars, requests>>

\* the transport answers invoke_model; invoke_nova_micro runs to its return
TransportMicroReply ==
    /\ microState = "calling"
    /\ \E reply \in MicroReplies :
        /\ microReply' = reply
        /\ microResult' = invoke_nova_micro(reply)
    /\ microState' = "done"
    /\ UNCHANGED <<mainVars, genVars, chatVars, requests>>

\* a worker calls stream_nova_pro(pro_prompt): calling a generator function
\* runs none of its body and returns the generator object
WorkerProCall ==
    /\ proState = "pending"
    /\ genPc' = "created"
    /\ proState' = "done"
    /\ UNCHANGED <<chunk, opened, events>>
    /\ UNCHANGED <<user_query, chatPc, micro_response, full_pro_response, sink>>
    /\ UNCHANGED <<mainVars, microVars, requests>>

---------------------------------------------------------------------------
(* chat(): awaiting and rendering the fast answer *)

\* chat waiting for both futures before it shows anything
MicroReady_Both == microState = "done" /\ proState = "done"

\* future_micro.result() may return
MicroReady == microState = "done"

\* micro_response = future_micro.result()
AwaitMicro ==
    /\ chatPc = "await_micro"
    /\ MicroReady
    /\ IF microResult = Raised
       THEN chatPc' = "raised" /\ UNCHANGED micro_response
       ELSE chatPc' = "print_micro" /\ micro_response' = microResult
    /\ UNCHANGED <<user_query, proState, full_pro_response, sink>>
    /\ UNCHANGED <<mainVars, microVars, genVars, requests>>

\* print(micro_response)
PrintMicro ==
    /\ chatPc = "print_micro"
    /\ sink' = Append(sink, [src |-> "micro", text |-> micro_response])
    /\ chatPc' = "await_pro"
    /\ UNCHANGED <<user_query, proState, micro_response, full_pro_response>>
    /\ UNCHANGED <<mainVars, microVars, genVars, requests>>

\* pro_stream_generator = future_pro_stream.result()
AwaitPro ==
    /\ chatPc = "await_pro"
    /\ proState = "done"
    /\ chatPc' = "iterate"
    /\ UNCHANGED <<user_query, proState, micro_response, full_pro_response, sink>>
    /\ UNCHANGED <<mainVars, microVars, genVars, requests>>

---------------------------------------------------------------------------
(* chat(): the loop over the generator, and the generator's body *)

\* the stream iterated before the fast answer has been awaited
FirstPullPc_Early == "await_micro"

\* the position of chat from which the generator is first resumed
FirstPullPc == "iterate"

\* the first next() of `for chunk in pro_stream_generator`: the body of
\* stream_nova_pro starts and runs up to the blocking
\* invoke_model_with_response_stream call
GenStart ==
    /\ chatPc = FirstPullPc
    /\ genPc = "created"
    /\ requests' = Append(requests, ProRequest(create_prompts(user_query).pro))
    /\ genPc' = "opening"
    /\ UNCHANGED <<chunk, opened, events>>
    /\ UNCHANGED <<mainVars, microVars, chatVars>>

\* the transport answers invoke_model_with_response_stream
TransportStreamOpen ==
    /\ genPc = "opening"
    /\ \E outcome \in OpenOutcomes :
        /\ opened' = outcome
        /\ IF outcome = "stream" THEN genPc' = "reading" /\ UNCHANGED chunk
           ELSE IF outcome = "no_body" THEN genPc' = "exhausted" /\ UNCHANGED chunk
           ELSE /\ genPc' = OnStreamException.genPc
                /\ chunk' = OnStreamException.chunk
    /\ UNCHANGED events
    /\ UNCHANGED <<mainVars, microVars, chatVars, requests>>

\* a generator that reads ahead while its last fragment is not yet taken
TransportStreamEvent_Prefetch ==
    /\ genPc \in {"reading", "yield_text"}
    /\ Len(events) < MaxEvents
    /\ \E event \in StreamEvents :
        /\ events' = Append(events, event)
        /\ LET outcome == EventOutcome(event)
           IN IF outcome.act = "skip" THEN UNCHANGED <<genPc, chunk>>
              ELSE IF outcome.act = "yield"
              THEN genPc' = "yield_text" /\ chunk' = outcome.value
              ELSE /\ genPc' = OnStreamException.genPc
                   /\ chunk' = OnStreamException.chunk
    /\ UNCHANGED opened
    /\ UNCHANGED <<mainVars, microVars, chatVars, requests>>

\* the transport delivers the next event; the loop body handles it
TransportStreamEvent ==
    /\ genPc = "reading"
    /\ Len(events) < MaxEvents
    /\ \E event \in StreamEvents :
        /\ events' = Append(events, event)
        /\ LET outcome == EventOutcome(event)
           IN IF outcome.act = "skip" THEN UNCHANGED <<genPc, chunk>>
              ELSE IF outcome.act = "yield"
              THEN genPc' = "yield_text" /\ chunk' = outcome.value
              ELSE /\ genPc' = OnStreamException.genPc
                   /\ chunk' = OnStreamException.chunk
    /\ UNCHANGED opened
    /\ UNCHANGED <<mainVars, microVars, chatVars, requests>>

\* the stream ends: the for loop of the generator is over and it returns
TransportStreamEnd ==
    /\ genPc = "reading"
    /\ events' = Append(events, EndOfStream)
    /\ genPc' = "exhausted"
    /\ UNCHANGED <<chunk, opened>>
    /\ UNCHANGED <<mainVars, microVars, chatVars, requests>>

\* reading the next event raises (timeout, connection lost)
TransportStreamRaise ==
    /\ genPc = "reading"
    /\ events' = Append(events, TransportError)
    /\ genPc' = OnStreamException.genPc
    /\ chunk' = OnStreamException.chunk
    /\ UNCHANGED opened
    /\ UNCHANGED <<mainVars, microVars, chatVars, requests>>

\* what sys.stdout.write(chunk) appends to the output
Written(c) == <<[src |-> "pro", text |-> c]>>

\* one pass of the body of `for chunk in pro_stream_generator`, and the
\* next() that follows it
ChatWrite ==
    /\ chatPc = "iterate"
    /\ genPc \in {"yield_text", "yield_error"}
    /\ IF chunk = NonStr
       THEN /\ chatPc' = "raised"
            /\ UNCHANGED <<genPc, sink, full_pro_response>>
       ELSE /\ sink' = sink \o Written(chunk)
            /\ full_pro_response' = full_pro_response \o chunk
            /\ genPc' = Resume(genPc)
            /\ UNCHANGED chatPc
    /\ UNCHANGED <<chunk, opened, events>>
    /\ UNCHANGED <<user_query, proState, micro_response>>
    /\ UNCHANGED <<mainVars, microVars, requests>>

\* chat returning while the generator still waits for its next event
ChatFinish_Early ==
    /\ chatPc = "iterate"
    /\ genPc \in {"exhausted", "reading"}
    /\ chatPc' = "returned"
    /\ UNCHANGED <<user_query, proState, micro_response, full_pro_response, sink>>
    /\ UNCHANGED <<mainVars, microVars, genVars, requests>>

\* the generator is exhausted: the loop ends, the executor is shut down
\* and chat returns None
ChatFinish ==
    /\ chatPc = "iterate"
    /\ genPc = "exhausted"
    /\ chatPc' = "returned"
    /\ UNCHANGED <<user_query, proState, micro_response, full_pro_response, sink>>
    /\ UNCHANGED <<mainVars, microVars, genVars, requests>>

---------------------------------------------------------------------------
Next ==
    \/ MainConstruct
    \/ MainSelectMode
    \/ MainInput
    \/ MainTest
    \/ MainAfterChat
    \/ MainPause
    \/ MainCrash
    \/ SubmitMicro
    \/ SubmitPro
    \/ WorkerMicroCall
    \/ TransportMicroReply
    \/ WorkerProCall
    \/ AwaitMicro
    \/ PrintMicro
    \/ AwaitPro
    \/ GenStart
    \/ TransportStreamOpen
    \/ TransportStreamEvent
    \/ TransportStreamEnd
    \/ TransportStreamRaise
    \/ ChatWrite
    \/ ChatFinish

Spec == Init /\ [][Next]_vars

TypeOK ==
    /\ mainPc \in {"construct", "select_mode", "input", "test", "chat", "pause",
                   "done", "exited", "crashed"}
    /\ chatPc \in {"idle", "submit_micro", "submit_pro", "await_micro", "print_micro",
                   "await_pro", "iterate", "raised", "returned"}
    /\ microState \in {"none", "pending", "calling", "done"}
    /\ proState \in {"none", "pending", "done"}
    /\ genPc \in {"none", "created", "opening", "reading", "yield_text",
                  "yield_error", "exhausted"}
    /\ Len(requests) <= 2

---------------------------------------------------------------------------
(* Vocabulary of the properties *)

RECURSIVE TextsOf(_)
TextsOf(entries) ==
    IF entries = <<>> THEN <<>> ELSE <<Head(entries).text>> \o TextsOf(Tail(entries))

IsProEntry(entry) == entry.src = "pro"
IsMicroEntry(entry) == entry.src = "micro"

\* the fragments of the deep answer rendered so far, in order
ProFragments == TextsOf(SelectSeq(sink, IsProEntry))

RECURSIVE Concat(_)
Concat(texts) == IF texts = <<>> THEN <<>> ELSE Head(texts) \o Concat(Tail(texts))

\* chat is past `micro_response = future_micro.result()`
MicroAwaited == chatPc \in {"print_micro", "await_pro", "iterate", "returned"}

\* the generator body has been entered: the first fragment has been asked for
StreamPulled == genPc \notin {"none", "created"}

FastFailed == microReply.kind \in MicroFailureKinds

IsFailureEvent(event) == event.kind \in RaisingKinds \cup {"transport_error"}
IsTextDelta(event) == event.kind = "delta_text" /\ event.text # <<>>

\* the non-empty text payloads of the delta events, in transport order
DeltaTexts == TextsOf(SelectSeq(events, IsTextDelta))

StreamFailed == opened = "raise" \/ \E i \in 1..Len(events) : IsFailureEvent(events[i])

\* the stream failed and no text delta came before the failure
FailedBeforeFirstFragment ==
    \/ opened = "raise"
    \/ \E i \in 1..Len(events) :
        /\ IsFailureEvent(events[i])
        /\ \A j \in 1..(i - 1) : ~IsTextDelta(events[j])

---------------------------------------------------------------------------
(* C1 *)

\* C1: in every chat turn both remote calls are started before either is
\* awaited: once chat has awaited the fast answer, the deep-tier streaming
\* request has already been issued to the transport.
C1_BothStartedBeforeAwait == MicroAwaited => ProIssued

---------------------------------------------------------------------------
(* C2 *)

\* C2: the fast answer is handed to the sink, in full and as the first
\* output, before the first fragment of the stream is pulled or rendered.
C2_PresentationOrder ==
    (StreamPulled \/ ProFragments # <<>>) =>
        /\ sink # <<>>
        /\ sink[1] = [src |-> "micro", text |-> microResult]
        /\ \A i \in 2..Len(sink) : IsProEntry(sink[i])

C2_Witness ==
    /\ Len(sink) >= 3
    /\ IsMicroEntry(sink[1])
    /\ IsProEntry(sink[2])
    /\ sink[2].text # sink[3].text

---------------------------------------------------------------------------
(* C3 *)

\* C3: whenever the fast-tier call fails (transport exception, missing
\* body, undecodable body, missing field) the fast answer of the turn is
\* the fixed non-empty message, chat does not raise at the await, and the
\* turn goes on to the deep-tier stream.
C3_FastFailSoft ==
    FastFailed =>
        /\ microState = "done" => microResult = MicroErrorMessage
        /\ MicroErrorMessage # <<>>
        /\ chatPc \in {"print_micro", "await_pro", "iterate", "returned", "raised"}
              => micro_response = MicroErrorMessage
        /\ chatPc = "raised" => ProIssued
        /\ chatPc = "returned" =>
              /\ ProIssued
              /\ sink[1] = [src |-> "micro", text |-> MicroErrorMessage]

C3_Witness ==
    /\ microReply.kind = "missing_field"
    /\ chatPc = "returned"
    /\ ProFragments = <<<<"x">>>>

---------------------------------------------------------------------------
(* C4 *)

\* C4: if the stream fails before any fragment has been yielded (opening
\* the stream raises, or an event before the first text delta raises), the
\* stream yields exactly one fragment, the non-empty error notice, and
\* then terminates without reading another event.
C4_FailSoftBeforeFirstFragment ==
    FailedBeforeFirstFragment =>
        /\ ProErrorMessage # <<>>
        /\ genPc \in {"yield_error", "exhausted"}
        /\ genPc = "yield_error" => chunk = ProErrorMessage /\ ProFragments = <<>>
        /\ genPc = "exhausted" => ProFragments = <<ProErrorMessage>>
        /\ events # <<>> => IsFailureEvent(events[Len(events)])

C4_Witness ==
    /\ Len(events) = 2
    /\ events[1].kind = "control"
    /\ events[2] = TransportError
    /\ chatPc = "returned"

C4_WitnessOpen == opened = "raise" /\ chatPc = "returned"

---------------------------------------------------------------------------
(* C5 *)

\* the stream failed after at least one text delta had been delivered
MidStreamFailure ==
    \E i \in 1..Len(events) :
        /\ IsFailureEvent(events[i])
        /\ \E j \in 1..(i - 1) : IsTextDelta(events[j])

\* C5 as stated: after a failure that follows at least one fragment the
\* stream ends silently, and the fragments rendered are exactly the text
\* fragments delivered before the failure.
C5_MidStreamFailureSilent ==
    (MidStreamFailure /\ genPc = "exhausted") => ProFragments = DeltaTexts

\* C5 as amended: after a failure that follows at least one fragment the
\* stream yields the error notice, once, and then terminates: the fragments
\* rendered are the text fragments delivered before the failure followed
\* by the notice.
C5_MidStreamFailureNotice ==
    MidStreamFailure =>
        /\ genPc \in {"yield_error", "exhausted"}
        /\ IsFailureEvent(events[Len(events)])
        /\ genPc = "yield_error" =>
              chunk = ProErrorMessage /\ ProFragments = DeltaTexts
        /\ genPc = "exhausted" => ProFragments = DeltaTexts \o <<ProErrorMessage>>

C5_Witness ==
    /\ MidStreamFailure
    /\ events[Len(events)] = TransportError
    /\ chatPc = "returned"
    /\ ProFragments = << <<"x">>, <<"y">>, ProErrorMessage >>

---------------------------------------------------------------------------
(* C6 *)

\* events that cannot be decoded or do not have the delta/text shape
MalformedKinds == RaisingKinds \cup {"delta_no_delta", "delta_no_text"}

\* C6: a malformed stream event is skipped without ending the stream:
\* after it the generator goes on reading the transport stream.
C6_MalformedEventSkipped ==
    (events # <<>> /\ events[Len(events)].kind \in MalformedKinds) => genPc = "reading"

---------------------------------------------------------------------------
(* C7 *)

IsNonStrDelta(event) == event.kind = "delta_text" /\ event.text = NonStr

\* the stream was opened and nothing raised, in the transport or in an event
FailureFree ==
    /\ opened = "stream"
    /\ \A i \in 1..Len(events) : ~IsFailureEvent(events[i]) /\ ~IsNonStrDelta(events[i])

\* C7: for a failure-free sequence of transport events the fragments
\* rendered are exactly the non-empty text payloads of the delta events, in
\* transport order, and what chat accumulates is their concatenation with
\* nothing in between; other events contribute nothing.
C7_FilterAndConcat ==
    FailureFree =>
        /\ full_pro_response = Concat(ProFragments)
        /\ genPc = "yield_text" => DeltaTexts = ProFragments \o <<chunk>>
        /\ genPc \in {"reading", "exhausted"} => ProFragments = DeltaTexts
        /\ chatPc = "returned" =>
              /\ events[Len(events)] = EndOfStream
              /\ sink = <<sink[1]>> \o [i \in 1..Len(DeltaTexts) |->
                                            [src |-> "pro", text |-> DeltaTexts[i]]]

C7_Witness ==
    /\ FailureFree
    /\ chatPc = "returned"
    /\ events[1].kind \in SkippedKinds
    /\ events[2] = [kind |-> "delta_text", text |-> <<"y">>]
    /\ ProFragments = << <<"y">> >>
    /\ full_pro_response = <<"y">>

---------------------------------------------------------------------------
(* C8 *)

\* the transport stream is over: no body, a failure, or its last event read
StreamOver ==
    \/ opened \in {"no_body", "raise"}
    \/ events # <<>> /\ (IsFailureEvent(events[Len(events)])
                            \/ events[Len(events)] = EndOfStream)

\* C8 as stated: chat returns without having pulled a fragment, with the
\* stream still open for its caller to drain.
C8_ReturnsOpenStream ==
    chatPc = "returned" => (ProFragments = <<>> /\ genPc # "exhausted")

\* C8 as amended: chat itself renders the fast answer and then pulls and
\* renders every fragment; when it returns the generator is exhausted, the
\* transport stream is over and nothing is left for the caller to drain.
C8_DrainsBeforeReturn ==
    chatPc = "returned" =>
        /\ genPc = "exhausted"
        /\ StreamOver
        /\ sink[1] = [src |-> "micro", text |-> micro_response]
        /\ ProFragments = IF StreamFailed THEN DeltaTexts \o <<ProErrorMessage>>
                          ELSE DeltaTexts

C8_Witness ==
    /\ chatPc = "returned"
    /\ Len(ProFragments) >= 2
    /\ ~StreamFailed

---------------------------------------------------------------------------
(* C9 *)

\* the steps of the thread that runs chat (the generator body included) and
\* of the worker that runs invoke_nova_micro are taken when they can be;
\* nothing is assumed of the transport or of the second worker
LiveSpec ==
    /\ Init
    /\ [][Next]_vars
    /\ WF_vars(SubmitMicro)
    /\ WF_vars(SubmitPro)
    /\ WF_vars(AwaitMicro)
    /\ WF_vars(PrintMicro)
    /\ WF_vars(AwaitPro)
    /\ WF_vars(GenStart)
    /\ WF_vars(ChatWrite)
    /\ WF_vars(ChatFinish)
    /\ WF_vars(WorkerMicroCall)

\* the fast answer of this turn is on the output
FastRendered == sink # <<>> /\ sink[1] = [src |-> "micro", text |-> microResult]

\* C9: once the fast-tier call has returned, the fast answer is eventually
\* handed to the output, whatever the deep-tier transport does or fails to
\* do.
C9_LatencyHiding == (microState = "done") ~> FastRendered

\* the fast answer is out while the deep-tier transport has answered nothing
C9_Witness == FastRendered /\ opened = "none" /\ events = <<>>

---------------------------------------------------------------------------
(* C10 *)

IsBlank(text) == \A i \in 1..Len(text) : text[i] = " "

\* C10 as stated: every completed turn shows a non-empty fast answer and at
\* least one fragment of the deep answer.
C10_AlwaysSomeOutput ==
    chatPc = "returned" => (sink # <<>> /\ sink[1].text # <<>> /\ ProFragments # <<>>)

\* C10 as amended: every completed turn shows a fast answer, which is empty
\* only when the fast call succeeded with an empty or whitespace-only text,
\* and shows at least one fragment of the deep answer unless the stream
\* ended without a failure and without a delta carrying non-empty text.
C10_OutputUnlessEmptySuccess ==
    chatPc = "returned" =>
        /\ sink # <<>>
        /\ IsMicroEntry(sink[1])
        /\ sink[1].text = <<>> <=> (microReply.kind = "ok" /\ IsBlank(microReply.text))
        /\ ProFragments = <<>> <=> (~StreamFailed /\ DeltaTexts = <<>>)

C10_Witness ==
    /\ chatPc = "returned"
    /\ FastFailed
    /\ StreamFailed
    /\ sink = <<[src |-> "micro", text |-> MicroErrorMessage],
                [src |-> "pro", text |-> ProErrorMessage]>>

---------------------------------------------------------------------------
(* C11 *)

\* C11: every chat turn ends normally: whatever events the transport
\* delivers and wherever it fails, no exception leaves chat and main is not
\* terminated by one.
C11_TurnNeverRaises == chatPc # "raised" /\ mainPc # "crashed"

---------------------------------------------------------------------------
(* C12 *)

NumMicroRequests == Len(SelectSeq(requests, IsMicroRequest))
NumProRequests == Len(SelectSeq(requests, IsProRequest))
NumFastResults == Len(SelectSeq(sink, IsMicroEntry))
NumTasks == (IF microState = "none" THEN 0 ELSE 1) + (IF proState = "none" THEN 0 ELSE 1)

\* a turn has been started and chat is no longer running
TurnOver == turn > 0 /\ chatPc \in {"returned", "raised", "idle"}

\* C12: in a chat turn at most one fast request and one streaming request
\* are issued, at most one fast answer is shown and at most two tasks are
\* submitted; when the turn is over exactly one request of each kind has
\* been issued, the fast one first, and exactly one fast answer was shown.
C12_OneRequestEach ==
    /\ NumMicroRequests <= 1
    /\ NumProRequests <= 1
    /\ NumFastResults <= 1
    /\ NumTasks <= 2
    /\ TurnOver =>
          /\ Len(requests) = 2
          /\ IsMicroRequest(requests[1])
          /\ IsProRequest(requests[2])
          /\ NumFastResults = 1
          /\ NumTasks = 2

\* a turn in which both calls failed and neither was issued again
C12_Witness ==
    /\ chatPc = "returned"
    /\ microReply.kind = "raise"
    /\ opened = "raise"
    /\ NumMicroRequests = 1
    /\ NumProRequests = 1

---------------------------------------------------------------------------
(* C13 *)

\* chat is executing: between its entry and its return or its exception
ChatRunning == mainPc = "chat" /\ chatPc \notin {"idle", "returned", "raised"}

\* the turn is finished: the fast call has returned, the generator is
\* exhausted, both submitted tasks are done and chat has returned to main
TurnFinished ==
    /\ microState = "done"
    /\ proState = "done"
    /\ genPc = "exhausted"
    /\ StreamOver
    /\ chatPc = "idle"

\* C13: turns never overlap: a turn is started only when the one before it
\* is finished, and within a turn a request is issued or an output is
\* rendered only while that turn's chat is executing.
C13_TurnsDoNotOverlap ==
    [][/\ turn' # turn => (turn' = turn + 1 /\ (turn = 0 \/ TurnFinished))
       /\ (turn' = turn /\ requests' # requests) => ChatRunning
       /\ (turn' = turn /\ sink' # sink) => ChatRunning]_vars

\* the second turn is rendering its deep answer
C13_Witness == turn = 2 /\ ChatRunning /\ ProFragments # <<>>

---------------------------------------------------------------------------
(* C14 *)

\* the requests of a turn, from its query alone
ExpectedRequests ==
    <<[op |-> "invoke_model", modelId |-> "amazon.nova-micro-v1:0",
       prompt |-> <<"micro_prompt", user_query>>],
      [op |-> "invoke_model_with_response_stream", modelId |-> "amazon.nova-pro-v1:0",
       prompt |-> <<"pro_prompt", user_query>>]>>

\* the fast answer of a turn, from the transport's reply alone
ExpectedFast ==
    IF microReply.kind = "ok" THEN Strip(microReply.text) ELSE MicroErrorMessage

\* the fragments of a turn, from what the stream delivered alone
ExpectedFragments == DeltaTexts \o (IF StreamFailed THEN <<ProErrorMessage>> ELSE <<>>)

IsPrefix(short, long) ==
    Len(short) <= Len(long) /\ short = SubSeq(long, 1, Len(short))

\* C14: what a turn sends and produces is a function of that turn's query
\* and of that turn's transport responses only, whatever the earlier turns
\* were; chat does not touch the chatbot object.
C14_TurnIsolation ==
    /\ [](/\ IsPrefix(requests, ExpectedRequests)
          /\ microState = "done" => microResult = ExpectedFast
          /\ MicroAwaited => micro_response = ExpectedFast
          /\ sink # <<>> => sink[1] = [src |-> "micro", text |-> ExpectedFast]
          /\ IsPrefix(ProFragments, ExpectedFragments)
          /\ full_pro_response = Concat(ProFragments)
          /\ chatPc = "returned" =>
                /\ requests = ExpectedRequests
                /\ ProFragments = ExpectedFragments
                /\ full_pro_response = Concat(ExpectedFragments))
    /\ [][mainPc = "chat" => bedrock_runtime' = bedrock_runtime]_vars

\* a later turn that completed with a deep answer of two fragments
C14_Witness ==
    /\ turn = 2
    /\ user_query = test_queries[2]
    /\ chatPc = "returned"
    /\ full_pro_response = <<"x", "y">>

---------------------------------------------------------------------------
(* C15 *)

\* the construction of the client has been tried and has failed
ConstructionFailed == mainPc # "construct" /\ bedrock_runtime = "none"

\* C15: if the construction of the client fails the process halts before
\* any turn: no mode is asked for, no line is read, chat is never invoked
\* and no request is ever issued.
C15_HaltOnConstructionFailure ==
    ConstructionFailed =>
        /\ mainPc = "exited"
        /\ mode = "none"
        /\ user_input = NoValue
        /\ inputsRead = 0
        /\ turn = 0
        /\ chatPc = "idle"
        /\ microState = "none"
        /\ proState = "none"
        /\ requests = <<>>
        /\ sink = <<>>

C15_Witness == ConstructionFailed /\ mainPc = "exited"

---------------------------------------------------------------------------
(* C16 *)

\* upper-case letters and their lower-case forms
CasePairs == {<<"Q", "q">>, <<"U", "u">>, <<"I", "i">>, <<"T", "t">>,
              <<"E", "e">>, <<"X", "x">>}
SameLetter(a, b) == a = b \/ <<a, b>> \in CasePairs

\* word is 'quit', 'exit' or '종료', whatever its case
IsQuitWord(word) ==
    \E quit \in {<<"q", "u", "i", "t">>, <<"e", "x", "i", "t">>, <<"jong", "ryo">>} :
        /\ Len(word) = Len(quit)
        /\ \A i \in 1..Len(quit) : SameLetter(word[i], quit[i])

\* C16: main invokes chat once per supplied query, in order.  In the test
\* mode the k-th invocation is for the k-th sample query and main finishes
\* after the last one.  In the interactive mode each line read starts one
\* chat for that line when it is, once stripped, neither empty nor a quit
\* word, and none otherwise; a quit word ends main, after which nothing
\* happens.  No chat is invoked in any other way.
C16_OnceForEachQuery ==
    /\ [](/\ mode = "2" => turn <= Len(test_queries)
          /\ (mode = "2" /\ mainPc = "done") => turn = Len(test_queries)
          /\ mode = "1" => turn <= inputsRead
          /\ mode \notin {"1", "2"} => turn = 0)
    /\ [][/\ turn' # turn =>
              /\ turn' = turn + 1
              /\ mode = "2" => user_query' = test_queries[turn']
              /\ mode = "1" => (inputsRead' = inputsRead + 1 /\ user_query' = user_input')
          /\ (mode = "1" /\ inputsRead' # inputsRead) =>
              /\ inputsRead' = inputsRead + 1
              /\ IsQuitWord(user_input') => (turn' = turn /\ mainPc' = "done")
              /\ user_input' = <<>> => (turn' = turn /\ mainPc' = "input")
              /\ (~IsQuitWord(user_input') /\ user_input' # <<>>) => turn' = turn + 1
          /\ mainPc = "done" => vars' = vars]_vars

\* one chat, then a quit word that is padded and in mixed case
C16_Witness ==
    /\ mode = "1"
    /\ mainPc = "done"
    /\ turn = 1
    /\ user_query = <<"Q", "1">>
    /\ user_input = <<"E", "x", "i", "T">>

\* the test mode has run its four queries
C16_WitnessTest == mode = "2" /\ mainPc = "done" /\ user_query = test_queries[4]

---------------------------------------------------------------------------
(* C17 *)

\* the fast call succeeded with an empty or whitespace-only answer
BlankReply == microReply.kind = "ok" /\ IsBlank(microReply.text)

\* C17: when the fast call succeeds with an empty or whitespace-only text
\* the fast answer is the empty string: the fixed message is not put in its
\* place and nothing is raised.
C17_EmptyFastAnswerKept ==
    BlankReply =>
        /\ microState = "done" => microResult = <<>>
        /\ chatPc \in {"print_micro", "await_pro", "iterate", "returned", "raised"}
              => micro_response = <<>>
        /\ sink # <<>> => sink[1] = [src |-> "micro", text |-> <<>>]

C17_Witness ==
    /\ microReply = [kind |-> "ok", text |-> <<" ">>]
    /\ chatPc = "returned"
    /\ sink[1] = [src |-> "micro", text |-> <<>>]

---------------------------------------------------------------------------
(* C18 *)

\* a read of the stream that gave an event or raised (not its end)
IsRead(event) == event.kind # "end_of_stream"
\* an event that gives no fragment
IsSkipped(event) ==
    event.kind \in SkippedKinds \/ (event.kind = "delta_text" /\ event.text = <<>>)

NumRead == Len(SelectSeq(events, IsRead))
NumSkipped == Len(SelectSeq(events, IsSkipped))
\* the reads not yet accounted for by a rendered fragment or a skip
NumOutstanding == NumRead - (Len(ProFragments) + NumSkipped)

\* C18: fragments are delivered one by one, without buffering: the reads of
\* the stream are never more than one ahead of the fragments rendered and
\* the events skipped, and the stream is read again only when every earlier
\* read is accounted for.
C18_IncrementalDelivery ==
    /\ [](NumOutstanding <= 1)
    /\ [][(turn' = turn /\ events' # events) => NumOutstanding = 0]_vars

\* the second fragment has been read, the first one is already rendered
C18_Witness ==
    /\ genPc = "yield_text"
    /\ chunk = <<"y">>
    /\ Len(events) = 2
    /\ ProFragments = << <<"x">> >>
    /\ NumOutstanding = 1

---------------------------------------------------------------------------
(* C19 *)

\* where the error notice stands among the rendered fragments
NoticePositions == {i \in 1..Len(ProFragments) : ProFragments[i] = ProErrorMessage}

\* the except clause of the generator has yielded its notice
NoticeYielded == genPc = "yield_error" \/ NoticePositions # {}

\* C19: the error notice appears at most once in a stream and is its last
\* fragment: once it has been yielded no event is read any more and no
\* fragment other than the notice itself is rendered.
C19_NoticeOnceAndLast ==
    /\ [](/\ Cardinality(NoticePositions) <= 1
          /\ NoticePositions # {} =>
                (NoticePositions = {Len(ProFragments)} /\ genPc = "exhausted")
          /\ genPc = "yield_error" => (NoticePositions = {} /\ chunk = ProErrorMessage))
    /\ [][(NoticeYielded /\ turn' = turn) =>
             /\ events' = events
             /\ \/ sink' = sink
                \/ genPc = "yield_error" /\ sink' = sink \o <<[src |-> "pro",
                                                              text |-> ProErrorMessage]>>]_vars

\* a fragment, then an event that cannot be decoded, then the notice
C19_Witness ==
    /\ chatPc = "returned"
    /\ Len(events) = 2
    /\ events[2].kind = "undecodable"
    /\ ProFragments = << <<"x">>, ProErrorMessage >>

====
